---------------------------- MODULE Spec2Model ----------------------------
(***************************************************************************)
(* svmgr logging subsystem: the wire codec and the streaming LogReader of  *)
(* src/src/log.rs, and the follower (tail_log / tail_file / read_entries)  *)
(* and its consumer of src/src/bin/logread.rs, with the writer of          *)
(* src/src/bin/logwrite.rs as the environment that appends frames.         *)
(*                                                                         *)
(* Bytes are the integers 0..255, byte strings are sequences of them.      *)
(* Rust's 0-based half-open ranges are written 1-based here: the slice     *)
(* buffer[a..b] is the elements a+1..b of the sequence.                    *)
(***************************************************************************)
EXTENDS Integers, Sequences, FiniteSets, TLC

(***************************************************************************)
(* Bounds of the model.                                                    *)
(***************************************************************************)
\* log.rs:25 sets MAX_ENTRY_SIZE to 4096; the model scales it down, to a
\* value that keeps what the claims rest on: the buffer holds a frame cut
\* off in its header together with the whole frame that follows it.
MAX_ENTRY_SIZE == 18
\* the number of pieces (frames or corrupted regions) of a reader stream
MaxPieces == 2

(***************************************************************************)
(* Program constants.                                                      *)
(***************************************************************************)
DATE_LEN == 26
SYNC_LEN == 4
SYNCHRONIZE_START == <<255, 255, 255, 255>>
SYNCHRONIZE_END == <<0, 0, 0, 0>>
BUFFER_CAPACITY == SYNC_LEN + DATE_LEN + 2 + MAX_ENTRY_SIZE * 2 + SYNC_LEN

Min(a, b) == IF a < b THEN a ELSE b
Max(a, b) == IF a > b THEN a ELSE b

(***************************************************************************)
(* Timestamps.  A NaiveDateTime is a record of its calendar fields, with   *)
(* the nanoseconds of the second (leap seconds left out);                  *)
(* DATE_FORMAT "%Y-%m-%d %H:%M:%S.%6f" is modelled digit by digit.         *)
(***************************************************************************)
Digit(n) == 48 + n
IsDigit(b) == b >= 48 /\ b <= 57

\* the w low decimal digits of n, most significant first, zero padded
RECURSIVE Pad(_, _)
Pad(n, w) == IF w = 0 THEN <<>> ELSE Append(Pad(n \div 10, w - 1), Digit(n % 10))

\* chrono's %Y: four digits zero padded for 0..9999, a sign and all the
\* digits beyond
FormatYear(y) ==
    IF y >= 0 /\ y <= 9999 THEN Pad(y, 4)
    ELSE IF y > 9999 THEN <<43>> \o Pad(y, 5)
    ELSE <<45>> \o Pad(0 - y, 4)

\* %6f writes the microseconds of the second: the nanoseconds divided by
\* 1000, the remainder dropped
FormatTimestamp(t) ==
    FormatYear(t.year) \o <<45>> \o Pad(t.month, 2) \o <<45>> \o Pad(t.day, 2)
      \o <<32>> \o Pad(t.hour, 2) \o <<58>> \o Pad(t.minute, 2) \o <<58>>
      \o Pad(t.second, 2) \o <<46>> \o Pad(t.nano \div 1000, 6)

\* the number written in decimal digits by s[a..b] (1-based, inclusive)
RECURSIVE Num(_, _, _)
Num(s, a, b) == IF b < a THEN 0 ELSE Num(s, a, b - 1) * 10 + (s[b] - 48)

IsLeap(y) == (y % 4 = 0 /\ y % 100 # 0) \/ y % 400 = 0
DaysIn(y, m) ==
    IF m = 2 THEN (IF IsLeap(y) THEN 29 ELSE 28)
    ELSE IF m \in {4, 6, 9, 11} THEN 30 ELSE 31

\* str::from_utf8 of the timestamp bytes.  Exact for strings without the
\* continuation bytes 0x80..0xBF; a multi-byte character is modelled as the
\* Utf8Error although chrono would then reject it as InvalidTimestamp.
IsUtf8(s) == \A i \in 1..Len(s) : s[i] < 128

\* NaiveDateTime::parse_from_str(s, DATE_FORMAT) on a DATE_LEN byte string:
\* the canonical form YYYY-MM-DD HH:MM:SS.ffffff with a real calendar date.
TimestampShape(s) ==
    /\ Len(s) = DATE_LEN
    /\ \A i \in (1..4) \cup {6, 7, 9, 10, 12, 13, 15, 16, 18, 19} \cup (21..26) :
          IsDigit(s[i])
    /\ s[5] = 45 /\ s[8] = 45 /\ s[11] = 32
    /\ s[14] = 58 /\ s[17] = 58 /\ s[20] = 46

ParsedFields(s) ==
    [year |-> Num(s, 1, 4), month |-> Num(s, 6, 7), day |-> Num(s, 9, 10),
     hour |-> Num(s, 12, 13), minute |-> Num(s, 15, 16),
     second |-> Num(s, 18, 19), nano |-> Num(s, 21, 26) * 1000]

ParseTimestamp(s) ==
    IF ~TimestampShape(s) THEN [ok |-> FALSE]
    ELSE LET t == ParsedFields(s) IN
         IF /\ t.month \in 1..12
            /\ t.day \in 1..DaysIn(t.year, t.month)
            /\ t.hour \in 0..23 /\ t.minute \in 0..59 /\ t.second \in 0..59
         THEN [ok |-> TRUE, timestamp |-> t]
         ELSE [ok |-> FALSE]

(***************************************************************************)
(* Codec: escape, unescape, serialize, deserialize.                        *)
(***************************************************************************)
\* an escape that mixes up the two codes
EscapeByteSwapped(byte) ==
    IF byte = 0 THEN <<0, 255>>
    ELSE IF byte = 255 THEN <<0, 240>>
    ELSE <<byte>>

\* an escape that leaves 0xFF as it is
EscapeByteZeroOnly(byte) ==
    IF byte = 0 THEN <<0, 240>> ELSE <<byte>>

\* the arms of escape's match
EscapeByte(byte) ==
    IF byte = 0 THEN <<0, 240>>
    ELSE IF byte = 255 THEN <<0, 255>>
    ELSE <<byte>>

RECURSIVE escape(_)
escape(input) ==
    IF input = <<>> THEN <<>>
    ELSE EscapeByte(Head(input)) \o escape(Tail(input))

\* [ok |-> TRUE, out |-> bytes] or [ok |-> FALSE, err |-> "InvalidEscape"]
RECURSIVE unescape(_)
unescape(input) ==
    IF input = <<>> THEN [ok |-> TRUE, out |-> <<>>]
    ELSE IF Head(input) = 0
    THEN IF Len(input) < 2 THEN [ok |-> FALSE, err |-> "InvalidEscape"]
         ELSE IF input[2] \notin {240, 255}
              THEN [ok |-> FALSE, err |-> "InvalidEscape"]
              ELSE LET r == unescape(SubSeq(input, 3, Len(input))) IN
                   IF r.ok
                   THEN [ok |-> TRUE,
                         out |-> <<IF input[2] = 240 THEN 0 ELSE 255>> \o r.out]
                   ELSE r
    ELSE LET r == unescape(Tail(input)) IN
         IF r.ok THEN [ok |-> TRUE, out |-> <<Head(input)>> \o r.out] ELSE r

\* the length field with its bytes in the other order
u16_to_be_bytes(n) == <<(n \div 256) % 256, n % 256>>

u16_to_le_bytes(n) == <<n % 256, (n \div 256) % 256>>
u16_from_le_bytes(b) == b[1] + 256 * b[2]

\* an entry is [timestamp |-> NaiveDateTime, entry |-> payload bytes]
serialize(e) ==
    SYNCHRONIZE_START \o FormatTimestamp(e.timestamp)
      \o u16_to_le_bytes(Len(e.entry)) \o escape(e.entry) \o SYNCHRONIZE_END

DeErr(kind) == [ok |-> FALSE, err |-> kind]

\* the tail of deserialize, after the timestamp was parsed: the length field
\* and the payload region
DeserializePayload(timestamp, rest0) ==
    LET len == u16_from_le_bytes(SubSeq(rest0, 1, 2))
        rest == SubSeq(rest0, 3, Len(rest0))
    IN  IF Len(rest) > len * 2 THEN DeErr("TooMuchInput")
        ELSE IF len = Len(rest)
        THEN [ok |-> TRUE, timestamp |-> timestamp, entry |-> rest]
        ELSE LET u == unescape(rest) IN
             IF ~u.ok THEN DeErr(u.err)
             ELSE IF Len(u.out) > len THEN DeErr("TooMuchInput")
             ELSE IF Len(u.out) < len THEN DeErr("NotEnoughInput")
             ELSE [ok |-> TRUE, timestamp |-> timestamp, entry |-> u.out]

deserialize(buffer) ==
    IF Len(buffer) < SYNC_LEN \/ SubSeq(buffer, 1, SYNC_LEN) # SYNCHRONIZE_START
    THEN DeErr("MissingSynchronizeStart")
    ELSE LET b1 == SubSeq(buffer, SYNC_LEN + 1, Len(buffer)) IN
    IF Len(b1) < SYNC_LEN
       \/ SubSeq(b1, Len(b1) - SYNC_LEN + 1, Len(b1)) # SYNCHRONIZE_END
    THEN DeErr("MissingSynchronizeEnd")
    ELSE LET b2 == SubSeq(b1, 1, Len(b1) - SYNC_LEN) IN
    IF Len(b2) < DATE_LEN + 2 THEN DeErr("NotEnoughInput")
    ELSE LET ts == SubSeq(b2, 1, DATE_LEN) IN
    IF ~IsUtf8(ts) THEN DeErr("Utf8Error")
    ELSE LET p == ParseTimestamp(ts) IN
    IF ~p.ok THEN DeErr("InvalidTimestamp")
    ELSE DeserializePayload(p.timestamp, SubSeq(b2, DATE_LEN + 1, Len(b2)))


(***************************************************************************)
(* LogReader.  The record holds the struct's fields (buffer, bytes,        *)
(* last_len, incomplete, read_total) and the position of the running       *)
(* next_entry call: pc, the scan offset of synchronize_end, and the        *)
(* call's result.                                                          *)
(*   pc: "idle"        no call was made yet                                *)
(*       "start"       at the top of synchronize_start's loop              *)
(*       "read_start"  awaiting read_into_buffer in synchronize_start      *)
(*       "end"         at the top of synchronize_end's loop                *)
(*       "read_end"    awaiting read_into_buffer in synchronize_end        *)
(*       "ret"         next_entry returned `result`                        *)
(*       "panic"       an assertion or a bounds check failed               *)
(***************************************************************************)
NoResult == [kind |-> "none"]
OkEntry(d) == [kind |-> "entry", timestamp |-> d.timestamp, entry |-> d.entry]
ErrDecode(e) == [kind |-> "decode", err |-> e]
ErrIo(e) == [kind |-> "io", err |-> e]

LogReaderNew ==
    [buffer |-> [i \in 1..BUFFER_CAPACITY |-> 0], bytes |-> 0, last_len |-> 0,
     incomplete |-> FALSE, read_total |-> 0,
     pc |-> "idle", offset |-> 0, result |-> NoResult]

shift_buffer(r, amount) ==
    IF amount = 0 THEN r
    ELSE IF amount >= r.bytes THEN [r EXCEPT !.bytes = 0]
    ELSE [r EXCEPT
            !.buffer = [i \in 1..BUFFER_CAPACITY |->
                          IF i <= r.bytes - amount THEN r.buffer[i + amount]
                          ELSE r.buffer[i]],
            !.bytes = r.bytes - amount]

\* slice.array_windows().position(|w| w == [b; 4]) on slice = buf[lo..hi]:
\* the 0-based offset in the slice of the first window, or -1 for None
WindowPosition(buf, lo, hi, b) ==
    LET hits == {i \in (lo + 1)..(hi - 3) :
                    \A k \in 0..3 : buf[i + k] = b}
    IN  IF hits = {} THEN -1
        ELSE (CHOOSE i \in hits : \A j \in hits : i <= j) - (lo + 1)

\* slice.iter().rev().take_while(|b| b == 0xFF).count() on buf[..n]
UsefulBytes(buf, n) ==
    LET runs == {k \in 0..n : \A i \in (n - k + 1)..n : buf[i] = 255}
    IN  CHOOSE k \in runs : \A j \in runs : j <= k

Panic(r) == [r EXCEPT !.pc = "panic"]

\* the call of synchronize_end made by next_entry once synchronize_start
\* returned Ok: the assertion on the whole buffer array, then offset = 0
synchronize_end_enter(r) ==
    IF \A i \in 1..SYNC_LEN : r.buffer[i] = 255
    THEN [r EXCEPT !.offset = 0, !.pc = "end"]
    ELSE Panic(r)

\* one iteration of synchronize_start's loop, up to its read
synchronize_start(r) ==
    LET start_offset == WindowPosition(r.buffer, 0, r.bytes, 255) IN
    IF start_offset >= 0
    THEN synchronize_end_enter(shift_buffer(r, start_offset))
    ELSE LET useful_bytes == UsefulBytes(r.buffer, r.bytes) IN
         IF ~(useful_bytes < SYNC_LEN) THEN Panic(r)
         ELSE [r EXCEPT
                 !.buffer = [i \in 1..BUFFER_CAPACITY |->
                               IF i <= useful_bytes THEN 255 ELSE r.buffer[i]],
                 !.bytes = useful_bytes,
                 !.pc = "read_start"]

\* a scan that steps over the end of the valid bytes
ScanAdvancePastEnd(slice_len) == slice_len + 1

\* a scan that forgets the overlap: a marker split by a refill is missed
ScanAdvanceNoOverlap(slice_len) == slice_len

\* how synchronize_end advances its scan offset (the last 3 bytes of the
\* scanned slice are scanned again after the refill)
ScanAdvance(slice_len) == slice_len - 3

\* a rescan that keeps the leading marker
DiscardNothing(r) == r

\* next_entry on Ok(None): self.shift_buffer(SYNCHRONIZE_START.len())
DiscardOnOverrun(r) == shift_buffer(r, SYNC_LEN)

\* a synchronize_end that never gives up
BufferFullNever(bytes) == FALSE

\* we used the whole buffer: self.buffer.len() == self.bytes
BufferFull(bytes) == BUFFER_CAPACITY = bytes

\* next_entry's use of a found frame region: record its length, decode it
next_entry_found(r, len) ==
    LET d == deserialize(SubSeq(r.buffer, 1, len)) IN
    [r EXCEPT !.last_len = len,
              !.result = IF d.ok THEN OkEntry(d) ELSE ErrDecode(d.err),
              !.pc = "ret"]

\* one iteration of synchronize_end's loop, up to its read, with what
\* next_entry does with Ok(Some(len)) and Ok(None)
synchronize_end(r) ==
    IF r.offset > r.bytes THEN Panic(r)
    ELSE
    LET slice_len == r.bytes - r.offset
        end_offset == WindowPosition(r.buffer, r.offset, r.bytes, 0)
    IN  IF end_offset >= 0
        THEN next_entry_found(r, r.offset + end_offset + SYNC_LEN)
        ELSE IF BufferFull(r.bytes)
        THEN [DiscardOnOverrun(r) EXCEPT !.pc = "start"]
        ELSE IF slice_len < 3 THEN Panic(r)
        ELSE [r EXCEPT !.offset = r.offset + ScanAdvance(slice_len),
                       !.pc = "read_end"]

\* a counter of reads instead of bytes
CountReadCalls(read_total, n) == read_total + 1

\* self.read_total += n as u64
CountRead(read_total, n) == read_total + n

\* read_into_buffer with the outcome of reader.read(&mut buffer[bytes..]):
\* `chunk` holds the bytes the source delivered (empty for Ok(0)), `fail`
\* says that the source returned an error instead
read_into_buffer(r, chunk, fail) ==
    IF fail THEN [r EXCEPT !.result = ErrIo("Other"), !.pc = "ret"]
    ELSE IF Len(chunk) = 0
    THEN [r EXCEPT !.incomplete = TRUE,
                   !.result = ErrIo("UnexpectedEof"), !.pc = "ret"]
    ELSE [r EXCEPT
            !.buffer = [i \in 1..BUFFER_CAPACITY |->
                          IF i > r.bytes /\ i <= r.bytes + Len(chunk)
                          THEN chunk[i - r.bytes] ELSE r.buffer[i]],
            !.read_total = CountRead(r.read_total, Len(chunk)),
            !.bytes = r.bytes + Len(chunk),
            !.pc = IF r.pc = "read_start" THEN "start" ELSE "end"]

\* the entry of next_entry: discard the previous message bytes
next_entry(r) ==
    [shift_buffer(r, r.last_len) EXCEPT !.pc = "start", !.result = NoResult]

ReadPcs == {"read_start", "read_end"}
ScanPcs == {"start", "end"}

\* the code between two reads
ReaderScan(r) == IF r.pc = "start" THEN synchronize_start(r) ELSE synchronize_end(r)

\* the most a read into buffer[bytes..] can deliver from `avail` bytes
ReadMax(r, avail) == Max(0, Min(avail, BUFFER_CAPACITY - r.bytes))

\* a whole next_entry call against a source that holds `data`, is read up
\* to `pos`, and delivers on every read all it has, up to the room left in
\* the buffer (a regular file, a slice): the reader, the source position
\* and the number of reads issued when the call returns (or panics)
RECURSIVE RunCall(_, _, _, _)
RunCall(r, data, pos, reads) ==
    IF r.pc \in ScanPcs THEN RunCall(ReaderScan(r), data, pos, reads)
    ELSE IF r.pc \in ReadPcs
    THEN LET n == ReadMax(r, Len(data) - pos) IN
         RunCall(read_into_buffer(r, SubSeq(data, pos + 1, pos + n), FALSE),
                 data, pos + n, reads + 1)
    ELSE [rd |-> r, pos |-> pos, reads |-> reads]

NextEntryCall(r, data, pos) == RunCall(next_entry(r), data, pos, 0)


(***************************************************************************)
(* Streams for the reader: concatenations of pieces, each a serialized     *)
(* entry or a corrupted region.                                            *)
(***************************************************************************)
\* the timestamp of the entries: 2024-01-02 03:04:05.123456
TS0 == [year |-> 2024, month |-> 1, day |-> 2, hour |-> 3, minute |-> 4,
        second |-> 5, nano |-> 123456000]

RECURSIVE SeqsUpTo(_, _)
SeqsUpTo(S, n) ==
    IF n = 0 THEN {<<>>}
    ELSE LET shorter == SeqsUpTo(S, n - 1) IN
         shorter \cup {Append(q, x) : q \in {t \in shorter : Len(t) = n - 1}, x \in S}

\* the payloads of the reader's streams: empty, a plain byte, each of the
\* two escaped bytes, and two escaped bytes in a row
Payloads == {<<>>, <<65>>, <<0>>, <<255>>, <<255, 0>>}
Entry(payload) == [timestamp |-> TS0, entry |-> payload]

FrameHead == SYNCHRONIZE_START \o FormatTimestamp(TS0)

\* a frame cut off inside its length field: it has no SYNCHRONIZE_END
TruncatedFrame == FrameHead \o <<1>>
\* a whole frame whose payload region holds an invalid escape
BadEscapeFrame == FrameHead \o <<1, 0>> \o <<0, 65>> \o SYNCHRONIZE_END
\* the first three bytes of a SYNCHRONIZE_START
TornStart == <<255, 255, 255>>

ValidPieces == {[kind |-> "valid", e |-> Entry(p), bytes |-> serialize(Entry(p))] :
                  p \in Payloads}
CorruptPieces ==
    {[kind |-> "truncated", e |-> Entry(<<>>), bytes |-> TruncatedFrame],
     [kind |-> "badescape", e |-> Entry(<<>>), bytes |-> BadEscapeFrame],
     [kind |-> "tornstart", e |-> Entry(<<>>), bytes |-> TornStart]}
Pieces == ValidPieces \cup CorruptPieces

PieceSeqs == {q \in SeqsUpTo(Pieces, MaxPieces) : Len(q) >= 1}

RECURSIVE Flatten(_)
Flatten(q) == IF q = <<>> THEN <<>> ELSE Head(q).bytes \o Flatten(Tail(q))

\* the stream offset at which piece i starts
PieceStart(q, i) == Len(Flatten(SubSeq(q, 1, i - 1)))

\* stream positions strictly inside the SYNCHRONIZE_END of a valid piece
InsideEnd(q) ==
    UNION {{PieceStart(q, i) + Len(q[i].bytes) - k : k \in 1..3} :
             i \in {j \in 1..Len(q) : q[j].kind = "valid"}}

AllValid(q) == \A i \in 1..Len(q) : q[i].kind = "valid"

(***************************************************************************)
(* State.                                                                  *)
(***************************************************************************)
VARIABLES
    \* the reader under test and its in-memory source
    rd,         \* the LogReader and the position of its next_entry call
    pieces,     \* the pieces the stream was built of
    stream,     \* the bytes of the source
    spos,       \* how many of them the source has delivered
    results,    \* what the next_entry calls returned, in order
    oneRead     \* what they return when each read delivers all that fits

rvars == <<rd, pieces, stream, spos, results, oneRead>>

VARIABLES
    \* the follower, its consumer and the file system
    logs,       \* args.logs
    mpc,        \* main: "spawn" in its loop over the logs, "recv" after
    midx,       \* the index of the log main's loop is at
    task,       \* per source, the tail_log task
    fsys,       \* per source, the directory and the file at {path}/current
    evq,        \* per source, the inotify events not yet read
    chan,       \* the channel: [src, entry] records
    pub,        \* per source, the payloads sent to the channel, in order
    consumed,   \* per source, how many of them main received
    faults      \* faults of the environment so far

tvars == <<logs, mpc, midx, task, fsys, evq, chan, pub, consumed, faults>>

VARIABLES
    \* the codec's functions on their own
    cin,        \* the input: an entry in memory, or the bytes of a frame
    cout        \* the last function applied to it and what it returned

cvars == <<cin, cout>>
vars == <<rd, pieces, stream, spos, results, oneRead,
          logs, mpc, midx, task, fsys, evq, chan, pub, consumed, faults,
          cin, cout>>

\* the state of the codec's variables where the codec is not the subject
CodecIdle == cin = [kind |-> "none"] /\ cout = [op |-> "none"]

\* the state of the follower in the reader's specification: nothing runs
TailIdle ==
    /\ logs = <<>> /\ mpc = "recv" /\ midx = 1
    /\ task = <<>> /\ fsys = <<>> /\ evq = <<>>
    /\ chan = <<>> /\ pub = <<>> /\ consumed = <<>> /\ faults = 0

\* the state of the reader under test in the follower's specification
ReaderIdle ==
    /\ rd = LogReaderNew /\ pieces = <<>> /\ stream = <<>> /\ spos = 0
    /\ results = <<>> /\ oneRead = <<>>

\* the results of the calls on a source that delivers `data` in reads as
\* large as the destination allows
RECURSIVE RunAll(_, _, _, _)
RunAll(r, data, pos, acc) ==
    LET c == NextEntryCall(r, data, pos) IN
    IF c.rd.pc = "panic" THEN Append(acc, [kind |-> "panic"])
    ELSE IF c.rd.incomplete THEN Append(acc, c.rd.result)
    ELSE RunAll(c.rd, data, c.pos, Append(acc, c.rd.result))

OneReadResults(data) == RunAll(LogReaderNew, data, 0, <<>>)

(***************************************************************************)
(* The codec's functions applied to inputs drawn from bounded sets:        *)
(* entries as a writer holds them in memory, and byte strings as a reader  *)
(* hands them to deserialize.                                              *)
(***************************************************************************)
\* payload lengths enumerated in full
MaxPayloadLen == 3
\* bytes of the enumerated payloads: the two escaped bytes, the escape code
\* 0xF0, and a plain byte
CodecBytes == {0, 65, 240, 255}

\* timestamps an entry can hold: with and without a part below the
\* microsecond, the first and the last instant with a four-digit year, a
\* leap day, and the first year with five digits
CodecTimestamps ==
    {TS0,
     [TS0 EXCEPT !.nano = 123456789],
     [year |-> 0, month |-> 1, day |-> 1, hour |-> 0, minute |-> 0,
      second |-> 0, nano |-> 0],
     [year |-> 9999, month |-> 12, day |-> 31, hour |-> 23, minute |-> 59,
      second |-> 59, nano |-> 999999999],
     [TS0 EXCEPT !.month = 2, !.day = 29],
     [TS0 EXCEPT !.year = 10000]}

\* payloads: every one up to MaxPayloadLen, and those of the maximal size
\* made of one byte
CodecPayloads ==
    SeqsUpTo(CodecBytes, MaxPayloadLen)
      \cup {[i \in 1..MAX_ENTRY_SIZE |-> b] : b \in CodecBytes}

CodecEntries ==
    {[timestamp |-> t, entry |-> p] : t \in CodecTimestamps, p \in CodecPayloads}

\* byte strings given to deserialize: a frame head, any length field up to
\* MaxPayloadLen, any payload region up to MaxPayloadLen bytes, and
\* SYNCHRONIZE_END; the same without its first or its last byte
CodecFrames ==
    LET whole == {FrameHead \o u16_to_le_bytes(n) \o region \o SYNCHRONIZE_END :
                    n \in 0..MaxPayloadLen,
                    region \in SeqsUpTo(CodecBytes, MaxPayloadLen)}
    IN  whole \cup {Tail(f) : f \in whole}
              \cup {SubSeq(f, 1, Len(f) - 1) : f \in whole}

CodecInit ==
    /\ cin \in {[kind |-> "entry", entry |-> e] : e \in CodecEntries}
                \cup {[kind |-> "frame", frame |-> f] : f \in CodecFrames}
    /\ cout = [op |-> "none"]
    /\ ReaderIdle
    /\ TailIdle

\* LogEntry::serialize on the entry
CodecSerialize ==
    /\ cin.kind = "entry" /\ cout.op = "none"
    /\ cout' = [op |-> "serialize", frame |-> serialize(cin.entry)]
    /\ UNCHANGED <<cin, rvars, tvars>>

\* LogEntry::deserialize on what serialize wrote
CodecDeserialize ==
    /\ cout.op = "serialize"
    /\ cout' = [op |-> "round_trip", frame |-> cout.frame,
                back |-> deserialize(cout.frame)]
    /\ UNCHANGED <<cin, rvars, tvars>>

\* escape on the entry's payload
CodecEscape ==
    /\ cin.kind = "entry" /\ cout.op = "none"
    /\ cout' = [op |-> "escape", escaped |-> escape(cin.entry.entry)]
    /\ UNCHANGED <<cin, rvars, tvars>>

\* unescape on what escape wrote
CodecUnescape ==
    /\ cout.op = "escape"
    /\ cout' = [op |-> "unescape", escaped |-> cout.escaped,
                back |-> unescape(cout.escaped)]
    /\ UNCHANGED <<cin, rvars, tvars>>

\* LogEntry::deserialize on the byte string
CodecDeserializeFrame ==
    /\ cin.kind = "frame" /\ cout.op = "none"
    /\ cout' = [op |-> "deserialize", back |-> deserialize(cin.frame)]
    /\ UNCHANGED <<cin, rvars, tvars>>

\* LogEntry::serialize on the entry deserialize returned
CodecReserialize ==
    /\ cout.op = "deserialize" /\ cout.back.ok
    /\ cout' = [op |-> "reserialize", back |-> cout.back,
                frame |-> serialize([timestamp |-> cout.back.timestamp,
                                     entry |-> cout.back.entry])]
    /\ UNCHANGED <<cin, rvars, tvars>>

CodecNext ==
    \/ CodecSerialize
    \/ CodecDeserialize
    \/ CodecEscape
    \/ CodecUnescape
    \/ CodecDeserializeFrame
    \/ CodecReserialize

SpecCodec == CodecInit /\ [][CodecNext]_vars

(***************************************************************************)
(* The reader against an in-memory source that delivers its bytes split    *)
(* at arbitrary boundaries.                                                *)
(***************************************************************************)
ReaderInit ==
    /\ rd = LogReaderNew
    /\ pieces \in PieceSeqs
    /\ stream = Flatten(pieces)
    /\ spos = 0
    /\ results = <<>>
    /\ oneRead = OneReadResults(stream)
    /\ TailIdle
    /\ CodecIdle

Returned(r) == IF r.pc = "ret" THEN <<r.result>> ELSE <<>>

\* the code that runs without awaiting the source: up to the next read, the
\* return or a panic
RECURSIVE RunScans(_)
RunScans(r) == IF r.pc \in ScanPcs THEN RunScans(ReaderScan(r)) ELSE r

\* the caller calls next_entry, until a call reported the end of the stream;
\* the call runs up to its first read
ReaderCall ==
    /\ rd.pc \in {"idle", "ret"}
    /\ ~rd.incomplete
    /\ rd' = RunScans(next_entry(rd))
    /\ results' = results \o Returned(rd')
    /\ UNCHANGED <<pieces, stream, spos, oneRead>>
    /\ UNCHANGED <<tvars, cvars>>

\* a read: the source delivers any non-empty part of what it has left that
\* fits the destination, and nothing at its end; the call runs on up to its
\* next read
ReaderRead ==
    /\ rd.pc \in ReadPcs
    /\ LET most == ReadMax(rd, Len(stream) - spos) IN
       \E n \in (IF most = 0 THEN {0} ELSE 1..most) :
          /\ rd' = RunScans(read_into_buffer(rd, SubSeq(stream, spos + 1, spos + n),
                                             FALSE))
          /\ spos' = spos + n
    /\ results' = results \o Returned(rd')
    /\ UNCHANGED <<pieces, stream, oneRead>>
    /\ UNCHANGED <<tvars, cvars>>

ReaderNext == ReaderCall \/ ReaderRead

SpecReader == ReaderInit /\ [][ReaderNext]_vars

ReaderDone == rd.pc = "ret" /\ rd.incomplete

(***************************************************************************)
(* The reader on streams that fill its buffer: a SYNCHRONIZE_START with no *)
(* SYNCHRONIZE_END within BUFFER_CAPACITY bytes of it.                     *)
(***************************************************************************)
Fill(n, b) == [i \in 1..n |-> b]

\* the frame of an entry with a one-byte payload has this many bytes
ShortFrameLen == 2 * SYNC_LEN + DATE_LEN + 2 + 1

\* regions that begin with a SYNCHRONIZE_START and hold no SYNCHRONIZE_END:
\* one so short that the buffer fills up inside the frame that follows it,
\* one of just the capacity, and a run of 0xFF
OverrunPieces ==
    {[kind |-> "overrun", e |-> Entry(<<>>),
      bytes |-> SYNCHRONIZE_START
                  \o Fill(BUFFER_CAPACITY - ShortFrameLen + 1 - SYNC_LEN, 65)],
     [kind |-> "overrun", e |-> Entry(<<>>),
      bytes |-> SYNCHRONIZE_START \o Fill(BUFFER_CAPACITY - SYNC_LEN, 65)],
     [kind |-> "ffrun", e |-> Entry(<<>>),
      bytes |-> Fill(BUFFER_CAPACITY - ShortFrameLen + 1, 255)]}

\* such a region alone, or followed by a valid frame with a payload
OverrunSeqs ==
    {<<g>> : g \in OverrunPieces}
      \cup {<<g, v>> : g \in OverrunPieces,
                       v \in {w \in ValidPieces : w.e.entry # <<>>}}

OverrunInit ==
    /\ rd = LogReaderNew
    /\ pieces \in PieceSeqs \cup OverrunSeqs
    /\ stream = Flatten(pieces)
    /\ spos = 0
    /\ results = <<>>
    /\ oneRead = OneReadResults(stream)
    /\ TailIdle
    /\ CodecIdle

SpecOverrun == OverrunInit /\ [][ReaderNext]_vars

(***************************************************************************)
(* The reader's loops step by step.  A step is what the code does between  *)
(* two points where a loop can come round: one pass of synchronize_start   *)
(* or of synchronize_end, or one read.  The source is finite: a read       *)
(* delivers at least one byte, or nothing once the stream is at its end.   *)
(* The executor runs a call that is not waiting, and the source answers    *)
(* every read, hence the weak fairness of both steps.                      *)
(***************************************************************************)
LiveInit ==
    /\ rd = LogReaderNew
    /\ pieces \in OverrunSeqs \cup {q \in PieceSeqs : Len(q) = 1}
    /\ stream = Flatten(pieces)
    /\ spos = 0
    /\ results = <<>>
    /\ oneRead = <<>>
    /\ TailIdle
    /\ CodecIdle

\* the caller calls next_entry: the previous message's bytes are discarded
LiveCall ==
    /\ rd.pc \in {"idle", "ret"}
    /\ ~rd.incomplete
    /\ rd' = next_entry(rd)
    /\ UNCHANGED <<pieces, stream, spos, results, oneRead>>
    /\ UNCHANGED <<tvars, cvars>>

\* one pass of synchronize_start's or synchronize_end's loop
LiveScan ==
    /\ rd.pc \in ScanPcs
    /\ rd' = ReaderScan(rd)
    /\ results' = results \o Returned(rd')
    /\ UNCHANGED <<pieces, stream, spos, oneRead>>
    /\ UNCHANGED <<tvars, cvars>>

\* one read
LiveRead ==
    /\ rd.pc \in ReadPcs
    /\ LET most == ReadMax(rd, Len(stream) - spos) IN
       \E n \in (IF most = 0 THEN {0} ELSE 1..most) :
          /\ rd' = read_into_buffer(rd, SubSeq(stream, spos + 1, spos + n), FALSE)
          /\ spos' = spos + n
    /\ results' = results \o Returned(rd')
    /\ UNCHANGED <<pieces, stream, oneRead>>
    /\ UNCHANGED <<tvars, cvars>>

LiveNext == LiveCall \/ LiveScan \/ LiveRead

SpecLive ==
    LiveInit /\ [][LiveNext]_vars /\ WF_vars(LiveScan) /\ WF_vars(LiveRead)

(***************************************************************************)
(* The reader against a source that grows: a file a writer appends to,     *)
(* read again by the same LogReader after it reported the end of the       *)
(* stream, as read_entries does on every notification.                     *)
(***************************************************************************)
\* where the writer's write_all is observed half done: inside the length
\* field
TornCut == SYNC_LEN + DATE_LEN + 1

\* the frames the writer appends
ResumeSeqs ==
    {q \in SeqsUpTo({v \in ValidPieces : v.e.entry \in {<<65>>, <<255, 0>>}},
                    MaxPieces) : Len(q) >= 1}

\* the sizes at which the reader can find the file: after each whole frame,
\* and with the last frame's write observed half done (inside its
\* SYNCHRONIZE_START, inside its length field, inside its SYNCHRONIZE_END)
ResumeCuts(q) ==
    UNION {{PieceStart(q, i) + k : k \in {2, TornCut, Len(q[i].bytes) - 2,
                                          Len(q[i].bytes)}} :
             i \in 1..Len(q)}

ResumeInit ==
    /\ rd = LogReaderNew
    /\ pieces \in ResumeSeqs
    /\ stream = <<>>
    /\ spos = 0
    /\ results = <<>>
    /\ oneRead = OneReadResults(Flatten(pieces))
    /\ TailIdle
    /\ CodecIdle

\* the writer's bytes reach the file up to a further size
SourceAppend ==
    /\ \E k \in ResumeCuts(pieces) :
          /\ k > Len(stream)
          /\ stream' = SubSeq(Flatten(pieces), 1, k)
    /\ UNCHANGED <<rd, pieces, spos, results, oneRead>>
    /\ UNCHANGED <<tvars, cvars>>

\* after the end of the stream was reported and the source has grown, the
\* caller clears the reader's flags and calls next_entry again
ResumeCall ==
    /\ rd.pc = "ret" /\ rd.incomplete
    /\ Len(stream) > spos
    /\ rd' = RunScans(next_entry([rd EXCEPT !.read_total = 0,
                                            !.incomplete = FALSE]))
    /\ results' = results \o Returned(rd')
    /\ UNCHANGED <<pieces, stream, spos, oneRead>>
    /\ UNCHANGED <<tvars, cvars>>

\* a read delivers all the source has that fits the destination (how reads
\* split the bytes is the subject of SpecReader)
ResumeRead ==
    /\ rd.pc \in ReadPcs
    /\ LET n == ReadMax(rd, Len(stream) - spos) IN
          /\ rd' = RunScans(read_into_buffer(rd, SubSeq(stream, spos + 1, spos + n),
                                             FALSE))
          /\ spos' = spos + n
    /\ results' = results \o Returned(rd')
    /\ UNCHANGED <<pieces, stream, oneRead>>
    /\ UNCHANGED <<tvars, cvars>>

ResumeNext == SourceAppend \/ ResumeCall \/ ReaderCall \/ ResumeRead

SpecResume == ResumeInit /\ [][ResumeNext]_vars

\* the whole file was supplied and read up to its end
ResumeDone == ReaderDone /\ stream = Flatten(pieces) /\ spos = Len(stream)


(***************************************************************************)
(* The follower of logread.rs.  One task per log of the command line       *)
(* (tail_log), one consumer (main), a channel of capacity 1 between them.  *)
(* The environment is the file system: the writer appending frames to      *)
(* {path}/current, truncation and rotation of that file, and the change    *)
(* notifications these raise.                                              *)
(***************************************************************************)
\* bounds
NumSources == 2
\* frames written to the files
MaxWrites == 2
\* frames written to the files when rotations are the only faults
MaxRotationWrites == 3
\* faults of the environment in one run: torn or corrupted writes,
\* truncations, rotations, failing system calls
MaxFaults == 2
\* program constants
RETRIES == 3
CHANNEL_CAPACITY == 1

Sources == 1..NumSources

\* char::is_ascii_graphic
IsAsciiGraphic(ch) == ch >= 33 /\ ch <= 126

\* Tag::new on a log name (a string of character codes; 47 is '/'):
\* [some |-> FALSE] for None
TagNew(log) ==
    LET slashes == {i \in 1..Len(log) : log[i] = 47} IN
    IF Cardinality(slashes) > 1 THEN [some |-> FALSE]
    ELSE IF \E i \in 1..Len(log) : log[i] # 47 /\ ~IsAsciiGraphic(log[i])
    THEN [some |-> FALSE]
    ELSE IF slashes = {}
    THEN [some |-> TRUE, user |-> <<>>, sv |-> log]
    ELSE LET i == CHOOSE j \in slashes : TRUE IN
         [some |-> TRUE, user |-> <<SubSeq(log, 1, i - 1)>>,
          sv |-> SubSeq(log, i + 1, Len(log))]

\* log names of the command line that Tag::new rejects: "a/b/c", "a b"; the
\* names of the other sources are "a" and "u/a"
BadLogs == {<<97, 47, 98, 47, 99>>, <<97, 32, 98>>}

\* the frame the writer appends as its k-th entry of a source
WriterEntry(k) == [timestamp |-> TS0, entry |-> <<k>>]
WriterFrame(k) == serialize(WriterEntry(k))

\* what a source is at the start: its log name, whether its directory
\* {base}/{log} exists, whether {path}/current exists, whether the user may
\* not read it (add_watch then fails with EACCES), and the file's bytes
Setups ==
    {[log |-> l, dir |-> TRUE, exists |-> TRUE, denied |-> FALSE,
      data |-> WriterFrame(1)] : l \in BadLogs}
    \cup {[log |-> <<97>>, dir |-> FALSE, exists |-> FALSE,
           denied |-> FALSE, data |-> <<>>],
          [log |-> <<97>>, dir |-> TRUE, exists |-> FALSE,
           denied |-> FALSE, data |-> <<>>],
          [log |-> <<97>>, dir |-> TRUE, exists |-> TRUE,
           denied |-> TRUE, data |-> WriterFrame(1)],
          [log |-> <<117, 47, 97>>, dir |-> TRUE, exists |-> TRUE,
           denied |-> FALSE, data |-> WriterFrame(1)]}

\* the first source takes every setup; the others are rejected, lack their
\* directory, or have a file that can be followed
SetupsOf(s) ==
    IF s = 1 THEN Setups
    ELSE {u \in Setups : ~u.dir \/ (u.exists /\ ~u.denied)}

ClosedFile == [open |-> FALSE, off |-> 0]

TaskNew ==
    [pc |-> "unspawned",        \* where the task is
     attempt |-> 0,             \* iterations of tail_log's loop started
     position |-> 0,            \* tail_file's position
     log_reader |-> LogReaderNew,
     file |-> ClosedFile,       \* tail_file's file: open, its read offset
     pending |-> NoResult,      \* the entry read_entries is sending
     failures |-> 0,            \* attempts that ended in Err
     last_error |-> "none",     \* the cause of the last of them
     last_size |-> -1,          \* metadata.len() at the last MODIFY handled
                                \* on this file, -1 for none
     reads |-> 0,               \* reads issued for the event being handled
     opened |-> 0]              \* how many frames had been written to the
                                \* source when the attempt opened its file

TailInit ==
    /\ ReaderIdle
    /\ CodecIdle
    /\ \E setup \in {f \in [Sources -> Setups] :
                         \A s \in Sources : f[s] \in SetupsOf(s)} :
         /\ logs = [s \in Sources |-> setup[s].log]
         /\ fsys = [s \in Sources |->
                      [dir |-> setup[s].dir,
                       exists |-> setup[s].exists,
                       denied |-> setup[s].denied,
                       data |-> setup[s].data,      \* the file at the path
                       old |-> <<>>,                \* the file it replaced
                       stale |-> FALSE,             \* the task's open file
                                                    \* is the replaced one
                       frames |-> IF setup[s].data = <<>> THEN <<>>
                                  ELSE <<[epoch |-> 0, off |-> 0]>>,
                       pre |-> IF setup[s].data = <<>> THEN 0 ELSE 1,
                       epoch |-> 0,                 \* truncations, rotations
                       torn |-> <<>>]]              \* rest of a torn write
    /\ mpc = "spawn" /\ midx = 1
    /\ task = [s \in Sources |-> TaskNew]
    /\ evq = [s \in Sources |-> <<>>]
    /\ chan = <<>>
    /\ pub = [s \in Sources |-> <<>>]
    /\ consumed = [s \in Sources |-> 0]
    /\ faults = 0

Set(f, s, v) == [f EXCEPT ![s] = v]

\* the bytes of the file object the task's open file refers to
HandleData(s) == IF fsys[s].stale THEN fsys[s].old ELSE fsys[s].data

\* the task holds an inotify instance with a watch on {path}/current
Watching(s) == task[s].pc \in {"watch", "drain", "send"}
\* the task has not ended
Alive(s) == task[s].pc \in {"start", "watchdir", "watch", "drain", "send"}

\* the environment is followed on the sources whose task has not ended and
\* may read the file
Observed(s) == mpc = "recv" /\ Alive(s) /\ ~fsys[s].denied

\* a fault may strike source s: the faults of a run are injected into its
\* first source, the other sources see whole writes only
MayFault(s) == s = 1 /\ faults < MaxFaults

\* the kernel queues an event for a watch, unless it equals the last event
\* still unread
Notify(s, ev) ==
    IF ~Watching(s) THEN evq
    ELSE IF evq[s] # <<>> /\ evq[s][Len(evq[s])] = ev THEN evq
    ELSE Set(evq, s, Append(evq[s], ev))

(***************************************************************************)
(* main.                                                                   *)
(***************************************************************************)
\* one iteration of main's loop over args.logs: the tag is rejected, the
\* path does not exist, or the task is spawned
SpawnOutcome(log, dir) ==
    IF ~TagNew(log).some THEN "rejected"
    ELSE IF ~dir THEN "nodir"
    ELSE "start"

\* a loop that ends at the first log it rejects
AfterLogStopOnReject(i, outcome) ==
    IF outcome = "rejected" THEN NumSources + 1 ELSE i + 1

\* the loop goes on to the next log whatever became of this one
AfterLog(i, outcome) == i + 1

MainSpawn ==
    /\ mpc = "spawn" /\ midx <= NumSources
    /\ LET outcome == SpawnOutcome(logs[midx], fsys[midx].dir) IN
       /\ task' = Set(task, midx, [task[midx] EXCEPT !.pc = outcome])
       /\ midx' = AfterLog(midx, outcome)
    /\ UNCHANGED <<logs, mpc, fsys, evq, chan, pub, consumed, faults>>
    /\ UNCHANGED <<rvars, cvars>>

\* the loop is over: main awaits rx.recv(), and the spawned tasks run
MainLoopEnd ==
    /\ mpc = "spawn" /\ midx > NumSources
    /\ mpc' = "recv"
    /\ UNCHANGED <<logs, midx, task, fsys, evq, chan, pub, consumed, faults>>
    /\ UNCHANGED <<rvars, cvars>>

\* rx.recv() returns an entry, main prints its lines
MainRecv ==
    /\ mpc = "recv" /\ chan # <<>>
    /\ chan' = Tail(chan)
    /\ consumed' = Set(consumed, Head(chan).src, consumed[Head(chan).src] + 1)
    /\ UNCHANGED <<logs, mpc, midx, task, fsys, evq, pub, faults>>
    /\ UNCHANGED <<rvars, cvars>>

(***************************************************************************)
(* tail_log, try_tail_log, tail_file, read_entries, wait_for_file.         *)
(***************************************************************************)
\* a loop that runs one attempt too many
RetryAllowedOffByOne(attempt) == attempt <= RETRIES

\* for _ in 0..3
RetryAllowed(attempt) == attempt < RETRIES

\* a follower that starts at the beginning of the file
OpenPositionStart(size) == 0

\* file.seek(SeekFrom::End(0))
OpenPosition(size) == size

\* an attempt ended in Err: tail_log prints it and loops; the inotify
\* instance, the file and the reader of the attempt are dropped
Failed(t, err) ==
    [t EXCEPT !.pc = "start", !.failures = @ + 1, !.last_error = err,
              !.file = ClosedFile, !.log_reader = LogReaderNew,
              !.position = 0, !.last_size = -1, !.pending = NoResult]

\* an iteration of tail_log's loop: try_tail_log registers the watch on
\* {path}/current and tail_file opens the file and seeks to its end; or the
\* file is not found and the directory is watched instead
TailLog(s) ==
    /\ mpc = "recv" /\ task[s].pc = "start" /\ RetryAllowed(task[s].attempt)
    /\ ~fsys[s].denied
    /\ LET t == task[s]
           at == OpenPosition(Len(fsys[s].data))
       IN  IF fsys[s].exists
           THEN /\ task' = Set(task, s,
                      [t EXCEPT !.pc = "watch", !.attempt = @ + 1,
                                !.position = at,
                                !.file = [open |-> TRUE, off |-> at],
                                !.log_reader = LogReaderNew,
                                !.last_size = -1, !.reads = 0,
                                !.opened = Len(fsys[s].frames)])
                /\ fsys' = Set(fsys, s, [fsys[s] EXCEPT !.stale = FALSE])
           ELSE /\ task' = Set(task, s,
                      [t EXCEPT !.pc = "watchdir", !.attempt = @ + 1])
                /\ fsys' = fsys
    /\ evq' = Set(evq, s, <<>>)
    /\ UNCHANGED <<logs, mpc, midx, chan, pub, consumed, faults>>
    /\ UNCHANGED <<rvars, cvars>>

\* an iteration whose add_watch fails with an error other than NotFound
TailLogFails(s) ==
    /\ mpc = "recv" /\ task[s].pc = "start" /\ RetryAllowed(task[s].attempt)
    /\ fsys[s].denied
    /\ task' = Set(task, s, Failed([task[s] EXCEPT !.attempt = @ + 1], "watch"))
    /\ evq' = Set(evq, s, <<>>)
    /\ UNCHANGED <<logs, mpc, midx, fsys, chan, pub, consumed, faults>>
    /\ UNCHANGED <<rvars, cvars>>

\* the loop of tail_log is over: the task ends
TailLogExit(s) ==
    /\ mpc = "recv" /\ task[s].pc = "start" /\ ~RetryAllowed(task[s].attempt)
    /\ task' = Set(task, s, [task[s] EXCEPT !.pc = "stopped"])
    /\ UNCHANGED <<logs, mpc, midx, fsys, evq, chan, pub, consumed, faults>>
    /\ UNCHANGED <<rvars, cvars>>

\* wait_for_file is todo!(): the task panics
WaitForFile(s) ==
    /\ mpc = "recv" /\ task[s].pc = "watchdir"
    /\ task' = Set(task, s, [task[s] EXCEPT !.pc = "panicked"])
    /\ UNCHANGED <<logs, mpc, midx, fsys, evq, chan, pub, consumed, faults>>
    /\ UNCHANGED <<rvars, cvars>>

\* tail_file without the check
TruncatedNever(len, position) == FALSE

\* ensure!(metadata.len() >= position, "log file was truncated")
Truncated(len, position) == ~(len >= position)

\* tail_file reads a MODIFY event: the truncation check, then read_entries
\* resets the reader's counters and starts its loop
HandleModify(s) ==
    /\ mpc = "recv" /\ task[s].pc = "watch"
    /\ evq[s] # <<>> /\ Head(evq[s]) = "MODIFY"
    /\ LET t == task[s]
           len == Len(HandleData(s))
       IN  IF Truncated(len, t.position)
           THEN /\ task' = Set(task, s, Failed(t, "truncated"))
                /\ evq' = Set(evq, s, <<>>)
           ELSE /\ task' = Set(task, s,
                      [t EXCEPT !.pc = "drain",
                                !.log_reader.read_total = 0,
                                !.log_reader.incomplete = FALSE,
                                !.last_size = len, !.reads = 0])
                /\ evq' = Set(evq, s, Tail(evq[s]))
    /\ UNCHANGED <<logs, mpc, midx, fsys, chan, pub, consumed, faults>>
    /\ UNCHANGED <<rvars, cvars>>

\* tail_file reads a MOVED_TO event: position = 0 and the file is opened
\* anew; log_reader is left as it is
HandleMovedTo(s) ==
    /\ mpc = "recv" /\ task[s].pc = "watch"
    /\ evq[s] # <<>> /\ Head(evq[s]) = "MOVED_TO"
    /\ LET t == task[s] IN
       IF fsys[s].exists
       THEN /\ task' = Set(task, s,
                  [t EXCEPT !.position = 0,
                            !.file = [open |-> TRUE, off |-> 0],
                            !.last_size = -1])
            /\ fsys' = Set(fsys, s, [fsys[s] EXCEPT !.stale = FALSE])
            /\ evq' = Set(evq, s, Tail(evq[s]))
       ELSE /\ task' = Set(task, s, Failed(t, "open"))
            /\ fsys' = fsys
            /\ evq' = Set(evq, s, <<>>)
    /\ UNCHANGED <<logs, mpc, midx, chan, pub, consumed, faults>>
    /\ UNCHANGED <<rvars, cvars>>

\* one iteration of read_entries' loop: a next_entry call on the file, and
\* what the loop does with its result
ReadEntries(s) ==
    /\ mpc = "recv" /\ task[s].pc = "drain"
    /\ LET t == task[s]
           c == NextEntryCall(t.log_reader, HandleData(s), t.file.off)
           t1 == [t EXCEPT !.log_reader = c.rd, !.file.off = c.pos,
                           !.reads = @ + c.reads]
       IN  /\ task' = Set(task, s,
                  IF c.rd.pc = "panic" THEN [t1 EXCEPT !.pc = "panicked"]
                  ELSE IF c.rd.result.kind = "entry"
                  THEN [t1 EXCEPT !.pc = "send", !.pending = c.rd.result]
                  ELSE IF c.rd.incomplete
                  THEN [t1 EXCEPT !.pc = "watch",
                                  !.position = @ + c.rd.read_total]
                  ELSE Failed(t1, "decode"))
           /\ evq' = IF c.rd.pc # "panic" /\ c.rd.result.kind # "entry"
                        /\ ~c.rd.incomplete
                     THEN Set(evq, s, <<>>) ELSE evq
    /\ UNCHANGED <<logs, mpc, midx, fsys, chan, pub, consumed, faults>>
    /\ UNCHANGED <<rvars, cvars>>

\* an iteration whose next_entry call gets an error from its first read of
\* the file
ReadFails(s) ==
    /\ mpc = "recv" /\ task[s].pc = "drain"
    /\ MayFault(s)
    /\ RunScans(next_entry(task[s].log_reader)).pc \in ReadPcs
    /\ faults' = faults + 1
    /\ task' = Set(task, s, Failed([task[s] EXCEPT !.reads = @ + 1], "read"))
    /\ evq' = Set(evq, s, <<>>)
    /\ UNCHANGED <<logs, mpc, midx, fsys, chan, pub, consumed>>
    /\ UNCHANGED <<rvars, cvars>>

\* a channel that takes any number of entries
ChannelHasRoomUnbounded(ch) == TRUE

\* mpsc::channel(1): a send completes when fewer entries than the capacity
\* are in the channel
ChannelHasRoom(ch) == Len(ch) < CHANNEL_CAPACITY

\* tx.send(tagged).await completes once the channel has room
SendEntry(s) ==
    /\ mpc = "recv" /\ task[s].pc = "send"
    /\ ChannelHasRoom(chan)
    /\ chan' = Append(chan, [src |-> s, entry |-> task[s].pending])
    /\ pub' = Set(pub, s, Append(pub[s], task[s].pending.entry))
    /\ task' = Set(task, s, [task[s] EXCEPT !.pc = "drain", !.pending = NoResult])
    /\ UNCHANGED <<logs, mpc, midx, fsys, evq, consumed, faults>>
    /\ UNCHANGED <<rvars, cvars>>

(***************************************************************************)
(* The environment.  It acts on the sources whose task has not ended.      *)
(***************************************************************************)
RECURSIVE Written(_)
\* the frames the writers have appended to the sources 1..n
Written(n) ==
    IF n = 0 THEN 0
    ELSE Written(n - 1) + Len(fsys[n].frames) - fsys[n].pre

CanWrite(s, most) ==
    /\ Observed(s)
    /\ fsys[s].exists /\ fsys[s].torn = <<>>
    /\ Written(NumSources) < most

Appended(f, bytes, torn) ==
    [f EXCEPT !.data = @ \o bytes, !.torn = torn,
              !.frames = Append(@, [epoch |-> f.epoch, off |-> Len(f.data)])]

\* the writer appends a frame in one write
WriteFrame(s, most) ==
    /\ CanWrite(s, most)
    /\ fsys' = Set(fsys, s,
          Appended(fsys[s], WriterFrame(Len(fsys[s].frames) + 1), <<>>))
    /\ evq' = Notify(s, "MODIFY")
    /\ UNCHANGED <<logs, mpc, midx, task, chan, pub, consumed, faults>>
    /\ UNCHANGED <<rvars, cvars>>

EnvWrite(s) == WriteFrame(s, MaxWrites)

\* the writer's write_all has written the first bytes of a frame only
EnvWriteTorn(s) ==
    /\ CanWrite(s, MaxWrites)
    /\ MayFault(s)
    /\ faults' = faults + 1
    /\ LET frame == WriterFrame(Len(fsys[s].frames) + 1) IN
       fsys' = Set(fsys, s,
          Appended(fsys[s], SubSeq(frame, 1, TornCut),
                   SubSeq(frame, TornCut + 1, Len(frame))))
    /\ evq' = Notify(s, "MODIFY")
    /\ UNCHANGED <<logs, mpc, midx, task, chan, pub, consumed>>
    /\ UNCHANGED <<rvars, cvars>>

\* it writes the rest
EnvWriteRest(s) ==
    /\ Observed(s)
    /\ fsys[s].torn # <<>>
    /\ fsys' = Set(fsys, s, [fsys[s] EXCEPT !.data = @ \o fsys[s].torn,
                                            !.torn = <<>>])
    /\ evq' = Notify(s, "MODIFY")
    /\ UNCHANGED <<logs, mpc, midx, task, chan, pub, consumed, faults>>
    /\ UNCHANGED <<rvars, cvars>>

\* a malformed frame gets into the file
EnvWriteCorrupt(s) ==
    /\ Observed(s)
    /\ fsys[s].exists /\ fsys[s].torn = <<>>
    /\ MayFault(s)
    /\ faults' = faults + 1
    /\ fsys' = Set(fsys, s, [fsys[s] EXCEPT !.data = @ \o BadEscapeFrame])
    /\ evq' = Notify(s, "MODIFY")
    /\ UNCHANGED <<logs, mpc, midx, task, chan, pub, consumed>>
    /\ UNCHANGED <<rvars, cvars>>

\* the file is truncated to no bytes
EnvTruncate(s) ==
    /\ Observed(s)
    /\ fsys[s].exists /\ fsys[s].data # <<>>
    /\ MayFault(s)
    /\ faults' = faults + 1
    /\ fsys' = Set(fsys, s, [fsys[s] EXCEPT !.data = <<>>, !.epoch = @ + 1])
    /\ evq' = Notify(s, "MODIFY")
    /\ UNCHANGED <<logs, mpc, midx, task, chan, pub, consumed>>
    /\ UNCHANGED <<rvars, cvars>>

\* rotation: a new, empty file is moved to {path}/current; a task that has
\* the file open keeps the replaced file object
EnvRotate(s) ==
    /\ Observed(s)
    /\ fsys[s].exists
    /\ MayFault(s)
    /\ faults' = faults + 1
    /\ LET f == fsys[s]
           keeps == task[s].file.open /\ ~f.stale
       IN  fsys' = Set(fsys, s,
              [f EXCEPT !.old = IF keeps THEN f.data ELSE @,
                        !.stale = (task[s].file.open),
                        !.data = <<>>, !.torn = <<>>, !.epoch = @ + 1])
    /\ evq' = Notify(s, "MOVED_TO")
    /\ UNCHANGED <<logs, mpc, midx, task, chan, pub, consumed>>
    /\ UNCHANGED <<rvars, cvars>>

\* the writer creates {path}/current
EnvCreate(s) ==
    /\ Observed(s)
    /\ fsys[s].dir /\ ~fsys[s].exists
    /\ fsys' = Set(fsys, s, [fsys[s] EXCEPT !.exists = TRUE])
    /\ UNCHANGED <<logs, mpc, midx, task, evq, chan, pub, consumed, faults>>
    /\ UNCHANGED <<rvars, cvars>>

TailNext ==
    \/ MainSpawn
    \/ MainLoopEnd
    \/ MainRecv
    \/ \E s \in Sources : TailLog(s)
    \/ \E s \in Sources : TailLogFails(s)
    \/ \E s \in Sources : TailLogExit(s)
    \/ \E s \in Sources : WaitForFile(s)
    \/ \E s \in Sources : HandleModify(s)
    \/ \E s \in Sources : HandleMovedTo(s)
    \/ \E s \in Sources : ReadEntries(s)
    \/ \E s \in Sources : ReadFails(s)
    \/ \E s \in Sources : SendEntry(s)
    \/ \E s \in Sources : EnvWrite(s)
    \/ \E s \in Sources : EnvWriteTorn(s)
    \/ \E s \in Sources : EnvWriteRest(s)
    \/ \E s \in Sources : EnvWriteCorrupt(s)
    \/ \E s \in Sources : EnvTruncate(s)
    \/ \E s \in Sources : EnvRotate(s)
    \/ \E s \in Sources : EnvCreate(s)

Spec == TailInit /\ [][TailNext]_vars

(***************************************************************************)
(* The follower under rotation: the files are written whole and rotated,   *)
(* with one more frame than above.                                         *)
(***************************************************************************)
EnvWriteRotated(s) == WriteFrame(s, MaxRotationWrites)

RotationNext ==
    \/ MainSpawn
    \/ MainLoopEnd
    \/ MainRecv
    \/ \E s \in Sources : TailLog(s)
    \/ \E s \in Sources : TailLogFails(s)
    \/ \E s \in Sources : TailLogExit(s)
    \/ \E s \in Sources : WaitForFile(s)
    \/ \E s \in Sources : HandleModify(s)
    \/ \E s \in Sources : HandleMovedTo(s)
    \/ \E s \in Sources : ReadEntries(s)
    \/ \E s \in Sources : SendEntry(s)
    \/ \E s \in Sources : EnvWriteRotated(s)
    \/ \E s \in Sources : EnvRotate(s)
    \/ \E s \in Sources : EnvCreate(s)

SpecRotation == TailInit /\ [][RotationNext]_vars

(***************************************************************************)
(* Claims about the reader.                                                *)
(***************************************************************************)
IsPrefix(p, q) == Len(p) <= Len(q) /\ SubSeq(q, 1, Len(p)) = p

Eof == ErrIo("UnexpectedEof")

\* C1: when a corrupted frame (cut off inside its length field, or holding
\* an invalid escape) is immediately followed by a valid frame, the calls
\* up to the end of the stream return the valid frame's entry.  (Stated for
\* valid frames with a payload: the empty payload is the matter of C2.)
C1_ResyncReturnsValidFrame ==
    (/\ ReaderDone
     /\ Len(pieces) = 2
     /\ pieces[1].kind \in {"truncated", "badescape"}
     /\ pieces[2].kind = "valid"
     /\ pieces[2].e.entry # <<>>)
    => \E i \in 1..Len(results) : results[i] = OkEntry(pieces[2].e)

\* C2: on a stream serialize(e1)..serialize(en) of valid entries the calls
\* return exactly e1..en, in order, and then the end of the stream.
C2_ValidStreamDecoded ==
    (ReaderDone /\ AllValid(pieces))
    => results = [i \in 1..Len(pieces) |-> OkEntry(pieces[i].e)] \o <<Eof>>

\* C3: on a valid stream, whatever the byte boundaries at which the source
\* splits it into reads, the calls return what they return when every read
\* delivers all that fits: never more, and at the end of the stream the
\* same sequence.
C3_SplitReadsSameResults ==
    AllValid(pieces)
    => /\ rd.pc # "panic"
       /\ IsPrefix(results, oneRead)
       /\ ReaderDone => results = oneRead

\* the first frame of a two-frame stream was returned, and the source has
\* delivered the second one in several reads, the last of which ended
\* strictly inside its SYNCHRONIZE_END
C3_Witness ==
    /\ AllValid(pieces) /\ Len(pieces) = 2
    /\ Len(results) = 1 /\ results[1] = OkEntry(pieces[1].e)
    /\ rd.pc = "read_end" /\ rd.offset > 1
    /\ spos \in InsideEnd(pieces) /\ spos > PieceStart(pieces, 2)

(***************************************************************************)
(* Claims about the follower.                                              *)
(***************************************************************************)
\* the step is a step of source s's task
TaskStep(s) == task'[s] # task[s]

\* the step ends an attempt of source s in Err
FailStep(s) == task'[s].failures = task[s].failures + 1

\* source s's task is about to handle the event ev
Handling(s, ev) ==
    task[s].pc = "watch" /\ evq[s] # <<>> /\ Head(evq[s]) = ev

\* C4: a structural decode error met while the follower drains a file is
\* never fatal to following the source: no attempt of any source ends with a
\* decode error.
C4_DecodeErrorNotFatal ==
    \A s \in Sources : task[s].last_error # "decode"

\* C5: when the follower handles a MOVED_TO event it reopens the file, sets
\* its position to 0 and resets the reader's buffer and the length it has
\* still to discard, also when the reader held bytes of the old file.
C5_RotationResetsReader ==
    [][\A s \in Sources :
         (Handling(s, "MOVED_TO") /\ TaskStep(s))
         => /\ task'[s].pc = "watch"
            /\ task'[s].file = [open |-> TRUE, off |-> 0]
            /\ task'[s].position = 0
            /\ task'[s].log_reader.bytes = 0
            /\ task'[s].log_reader.last_len = 0]_vars

\* C6 as stated: when the follower handles a MODIFY event and the file is
\* smaller than it was at the MODIFY event handled before, the attempt fails
\* with the truncation error and no read is issued.
C6_SizeDecreaseFails ==
    [][\A s \in Sources :
         (/\ Handling(s, "MODIFY") /\ TaskStep(s)
          /\ task[s].last_size >= 0
          /\ Len(HandleData(s)) < task[s].last_size)
         => /\ FailStep(s)
            /\ task'[s].last_error = "truncated"
            /\ task'[s].reads = task[s].reads]_vars

\* C6 amended: when the follower handles a MODIFY event and the file is
\* smaller than the position (the bytes the attempt has read, counted from
\* where it opened the file), the attempt fails with the truncation error
\* at this event and no read is issued; a file that is not smaller than the
\* position is read.
C6_BelowPositionFails ==
    [][\A s \in Sources :
         (Handling(s, "MODIFY") /\ TaskStep(s))
         => IF Len(HandleData(s)) < task[s].position
            THEN /\ FailStep(s)
                 /\ task'[s].last_error = "truncated"
                 /\ task'[s].pc = "start"
                 /\ task'[s].reads = task[s].reads
            ELSE /\ ~FailStep(s)
                 /\ task'[s].pc = "drain"]_vars

\* a truncation was detected: the file was emptied, below the position of
\* the attempt
C6_Witness ==
    \E s \in Sources :
        /\ task[s].last_error = "truncated"
        /\ task[s].pc = "start"
        /\ fsys[s].data = <<>> /\ fsys[s].epoch > 0

\* C7: an attempt that fails is followed by a new attempt that starts from
\* the beginning (no file, a new reader, position 0), a source gets at most
\* RETRIES attempts, and after the last one the task has ended: its state
\* and what it has published stay as they are.
C7_RetryAtMostThrice ==
    /\ [](\A s \in Sources :
            /\ task[s].attempt <= RETRIES
            /\ task[s].failures <= task[s].attempt
            /\ task[s].pc = "stopped" => task[s].attempt = RETRIES)
    /\ [][\A s \in Sources :
            /\ FailStep(s)
               => /\ task'[s].pc = "start"
                  /\ task'[s].file = ClosedFile
                  /\ task'[s].log_reader = LogReaderNew
                  /\ task'[s].position = 0
            /\ (task[s].pc = "start" /\ TaskStep(s))
               => IF task[s].attempt < RETRIES
                  THEN /\ task'[s].attempt = task[s].attempt + 1
                       /\ task'[s].pc \in {"watch", "watchdir", "start"}
                  ELSE task'[s].pc = "stopped"
            /\ task[s].pc = "stopped"
               => task'[s] = task[s] /\ pub'[s] = pub[s]]_vars

\* a source whose three attempts have failed
C7_Witness ==
    \E s \in Sources :
        /\ task[s].pc = "stopped"
        /\ task[s].failures = RETRIES

\* C8: a task that watches the directory for the file stays there or goes
\* on to watch the file; it does not end.
C8_WatchingDirectoryFollows ==
    [][\A s \in Sources :
         task[s].pc = "watchdir"
         => task'[s].pc \in {"watchdir", "watch"}]_vars

\* the frame of source s an entry published for it was decoded from
FrameOf(s, e) == fsys[s].frames[e[1]]

\* C9: every entry published for a source is the entry of a frame written
\* to it, and of two entries whose frames were written to the same file,
\* with no truncation or rotation between, the one published first has the
\* lower offset.
C9_PublishedInFileOrder ==
    \A s \in Sources :
      /\ \A i \in 1..Len(pub[s]) :
           Len(pub[s][i]) = 1 /\ pub[s][i][1] \in 1..Len(fsys[s].frames)
      /\ \A i, j \in 1..Len(pub[s]) :
           (i < j /\ FrameOf(s, pub[s][i]).epoch = FrameOf(s, pub[s][j]).epoch)
           => ~(FrameOf(s, pub[s][i]).off > FrameOf(s, pub[s][j]).off)

\* the step is the failure of source s: its tag is rejected, its directory
\* is missing, an attempt fails, or its task ends
Fails(s) ==
    \/ FailStep(s)
    \/ /\ TaskStep(s)
       /\ task'[s].pc \in {"rejected", "nodir", "stopped", "panicked"}

\* C10: every source with a valid tag and an existing directory gets its
\* task, whatever became of the sources before it; a step in which a source
\* fails leaves the state, the file, the events and the published entries
\* of every other source as they are; and a task that has an entry to send
\* can send it as soon as the channel has room, and main can take an entry
\* that is in the channel, whatever state the other sources are in.
C10_FailureIsLocal ==
    /\ [](/\ mpc = "recv"
             => \A s \in Sources :
                  task[s].pc # "unspawned"
                  /\ (task[s].pc \in {"rejected", "nodir"}
                      <=> SpawnOutcome(logs[s], fsys[s].dir) # "start")
          /\ \A t \in Sources :
               (task[t].pc = "send" /\ Len(chan) < CHANNEL_CAPACITY)
               => ENABLED SendEntry(t)
          /\ (mpc = "recv" /\ chan # <<>>) => ENABLED MainRecv)
    /\ [][\A s \in Sources :
            Fails(s)
            => \A t \in Sources \ {s} :
                 /\ task'[t] = task[t]
                 /\ fsys'[t] = fsys[t]
                 /\ evq'[t] = evq[t]
                 /\ pub'[t] = pub[t]
                 /\ consumed'[t] = consumed[t]]_vars

\* one source has ended after its last failure, and an
\* entry of another source has been consumed while the next one is sent
C10_Witness ==
    \E s, t \in Sources :
        /\ s # t
        /\ task[s].pc = "stopped"
        /\ task[t].pc = "send"
        /\ consumed[t] >= 1

\* the entries of source s that are in the channel
InChannel(s) == Cardinality({i \in 1..Len(chan) : chan[i].src = s})

\* C11: the channel never holds more than CHANNEL_CAPACITY (one) entry; a
\* task that has decoded an entry stays at its send while the channel is
\* full, and when it sends, the entry it holds goes into the channel; every
\* entry sent is in the channel or was received by main, and main receives
\* the entries in the order they were sent.
C11_SingleSlotChannel ==
    /\ [](/\ Len(chan) <= CHANNEL_CAPACITY
          /\ \A s \in Sources :
               /\ Len(pub[s]) = consumed[s] + InChannel(s)
               /\ task[s].pc = "send" <=> task[s].pending.kind = "entry")
    /\ [][\A s \in Sources :
            /\ (task[s].pc = "send" /\ Len(chan) >= CHANNEL_CAPACITY)
               => task'[s] = task[s] /\ pub'[s] = pub[s]
            /\ (task[s].pc = "send" /\ TaskStep(s))
               => /\ chan' = Append(chan, [src |-> s, entry |-> task[s].pending])
                  /\ pub'[s] = Append(pub[s], task[s].pending.entry)
                  /\ task'[s].pc = "drain"
            /\ consumed'[s] # consumed[s]
               => /\ chan # <<>> /\ Head(chan).src = s
                  /\ chan' = Tail(chan)
                  /\ consumed'[s] = consumed[s] + 1]_vars

\* a task holds a decoded entry while the channel is full with an entry
\* that main has not received
C11_Witness ==
    \E s \in Sources :
        /\ task[s].pc = "send"
        /\ Len(chan) = CHANNEL_CAPACITY
        /\ consumed[s] < Len(pub[s])


\* the timestamp as %6f keeps it: without what is below the microsecond
TruncatedToMicros(t) == [t EXCEPT !.nano = (t.nano \div 1000) * 1000]

RoundTrip == cin.kind = "entry" /\ cout.op = "round_trip"

C13_UnescapeInvertsEscape ==
    cout.op = "unescape"
        => cout.back.ok /\ cout.back.out = cin.entry.entry

C13_Witness ==
    /\ cout.op = "unescape"
    /\ cin.entry.entry = <<255, 0, 240>>
    /\ cout.escaped = <<0, 255, 0, 240, 240>>
    /\ cout.back.ok

\* four bytes b in a row somewhere in q
HasRun(q, b) ==
    \E i \in 1..(Len(q) - SYNC_LEN + 1) :
        \A k \in 0..(SYNC_LEN - 1) : q[i + k] = b

\* C14: for every payload the output of escape holds no four 0xFF in a row
\* and no four 0x00 in a row
C14_EscapedHasNoSync ==
    cout.op = "escape"
        => ~HasRun(cout.escaped, 255) /\ ~HasRun(cout.escaped, 0)

C14_Witness ==
    /\ cout.op = "escape"
    /\ \E b \in {0, 255} : HasRun(cin.entry.entry, b)
    /\ Len(cout.escaped) = 2 * Len(cin.entry.entry)

\* C16: deserialize is a strict inverse of serialize: whenever
\* deserialize(f) succeeds with the entry e, f is exactly serialize(e)
C16_DeserializeStrictInverse ==
    (cin.kind = "frame" /\ cout.op = "reserialize")
        => cout.frame = cin.frame

\* the entries among the results
EntriesOf(res) == SelectSeq(res, LAMBDA x : x.kind = "entry")

\* C15: the end of the stream is resumable: when next_entry reports it
\* while the buffer holds the first part of a frame (also after an earlier
\* call returned an entry) and the source later supplies the rest, a later
\* call returns that frame's entry; so, once a file of valid frames was
\* supplied and read to its end, every frame's entry was returned, in order
C15_EofIsResumable ==
    ResumeDone
        => EntriesOf(results) = [i \in 1..Len(pieces) |-> OkEntry(pieces[i].e)]

\* C17: while a file is followed, after every completed pass of
\* read_entries the tracked position equals the read offset of the open
\* file (where it was opened, or 0 after a rotation, plus every byte the
\* reader pulled since); during a pass the offset is the position plus the
\* pass's read_total
C17_PositionIsFileOffset ==
    \A s \in Sources :
        task[s].file.open
            => /\ task[s].pc = "watch" => task[s].position = task[s].file.off
               /\ task[s].pc \in {"drain", "send"}
                    => task[s].file.off
                         = task[s].position + task[s].log_reader.read_total

C17_Witness ==
    \E s \in Sources :
        /\ task[s].pc = "watch" /\ task[s].file.open
        /\ task[s].log_reader.read_total > 1
        /\ task[s].reads > 1
        /\ pub[s] # <<>>
        /\ task[s].position = task[s].file.off

\* C18: when the buffer begins with SYNCHRONIZE_START, is full and holds no
\* SYNCHRONIZE_END, next_entry discards the 4 leading bytes and scans again;
\* a valid frame that begins later in the stream is still found and its
\* entry returned
C18_OverrunKeepsLaterFrame ==
    (/\ ReaderDone
     /\ Len(pieces) = 2
     /\ pieces[1].kind \in {"overrun", "ffrun"}
     /\ pieces[2].kind = "valid")
    => \E i \in 1..Len(results) : results[i] = OkEntry(pieces[2].e)

\* the stream begins with a region that fills the buffer
Overrunning == pieces # <<>> /\ pieces[1].kind \in {"overrun", "ffrun"}

\* C19: the reader never asks the source to read into an empty destination:
\* in every state 0 <= bytes <= BUFFER_CAPACITY, and read_into_buffer is
\* invoked only with bytes < BUFFER_CAPACITY, so a read that returns no
\* byte, which sets incomplete, happens at the end of the stream only
C19_ReadsHaveRoom ==
    /\ rd.bytes \in 0..BUFFER_CAPACITY
    /\ rd.pc \in ReadPcs => rd.bytes < BUFFER_CAPACITY
    /\ rd.incomplete => spos = Len(stream)

\* the buffer was filled by a region without SYNCHRONIZE_END, its leading
\* marker was discarded and the call is about to read again
C19_Witness ==
    /\ Overrunning
    /\ results = <<>>
    /\ rd.pc \in ReadPcs
    /\ rd.read_total = BUFFER_CAPACITY
    /\ rd.bytes < BUFFER_CAPACITY

\* C20: no sequence of next_entry calls, on whatever stream and whatever
\* split of it into reads, makes the reader panic: useful_bytes < 4 holds in
\* synchronize_start, the buffer starts with SYNCHRONIZE_START whenever
\* synchronize_end runs, the scanned slice has at least 3 bytes and the
\* scan offset never exceeds bytes
C20_ReaderNeverPanics ==
    /\ rd.pc # "panic"
    /\ rd.pc = "read_start" => rd.bytes < SYNC_LEN
    /\ rd.pc = "read_end"
         => /\ SubSeq(rd.buffer, 1, SYNC_LEN) = SYNCHRONIZE_START
            /\ rd.bytes >= SYNC_LEN
            /\ rd.offset = rd.bytes - 3

C20_Witness ==
    /\ ReaderDone
    /\ Overrunning
    /\ Len(pieces) = 2
    /\ \E i \in 1..Len(results) : results[i] = OkEntry(pieces[2].e)
    /\ rd.read_total = Len(stream)
\* a next_entry call is running
InCall == rd.pc \in ScanPcs \cup ReadPcs

\* C21: on a finite source every next_entry call terminates, returning an
\* entry, a decode error or the end of the stream, because each round of its
\* loops pulls bytes from the source or discards buffered bytes: a read
\* that does not end the call delivered at least one byte, and a rescan
\* after a full buffer starts with fewer bytes
C21_CallTerminates ==
    /\ InCall ~> (rd.pc = "ret" /\ rd.result.kind \in {"entry", "decode", "io"})
    /\ [][/\ (rd.pc \in ReadPcs /\ rd'.pc # "ret") => spos' > spos
          /\ (rd.pc = "end" /\ rd'.pc = "start") => rd'.bytes < rd.bytes]_vars

C21_Witness ==
    /\ Overrunning
    /\ rd.pc = "ret"
    /\ rd.result.kind = "entry"
    /\ rd.read_total > BUFFER_CAPACITY

\* the step starts a watch attempt of source s that opens its file
Opens(s) == task[s].pc = "start" /\ task'[s].pc = "watch"

\* C22: every watch attempt starts at the end of the file with a fresh
\* LogReader: its position and its file's read offset are the file's size
\* when it opens it, so a frame that was in the file when the attempt
\* started (written before the follower ran, or between a failed attempt
\* and the next) is not published by it; what an attempt publishes was
\* appended after it opened the file
C22_AttemptStartsAtEnd ==
    /\ [](\A s \in Sources : \A i \in 1..Len(pub[s]) :
             Len(pub[s][i]) = 1 => pub[s][i][1] > fsys[s].pre)
    /\ [][\A s \in Sources :
            /\ Opens(s)
                 => /\ task'[s].position = Len(fsys[s].data)
                    /\ task'[s].file = [open |-> TRUE, off |-> Len(fsys[s].data)]
                    /\ task'[s].log_reader = LogReaderNew
            /\ (pub'[s] # pub[s] /\ Len(task[s].pending.entry) = 1)
                 => task[s].pending.entry[1] > task[s].opened]_vars

C22_Witness ==
    \E s \in Sources :
        /\ task[s].attempt = 2
        /\ task[s].failures = 1
        /\ fsys[s].pre = 1
        /\ task[s].opened = 2
        /\ pub[s] = << <<3>> >>

=============================================================================
